---- MODULE Spec2Model ----
(***************************************************************************)
(* Model of the backup agent: the planner (createPlan), the run            *)
(* coordinator (run.ts) and the plan executor (execute, SSHExecutor).      *)
(*                                                                         *)
(* Abstractions.  An SSH configuration is identified by the pair           *)
(* (owner host, peer host): host.ssh is modelled as the set of peer ids    *)
(* for which the owner holds a configuration.  A Date is a whole number    *)
(* of days counted from 1 January of a non-leap year (the time of day is   *)
(* the same for every timestamp).  An optional value is a sequence of      *)
(* length 0 (undefined) or 1.                                              *)
(***************************************************************************)
EXTENDS Integers, Sequences, FiniteSets, TLC

(***************************************************************************)
(* Bounds of the model.                                                    *)
(***************************************************************************)
MaxCalls == 2
MaxDestinations == 2
MaxStartDay == 62
MaxElapsed == 34
MaxBlueprints == 2
MaxInvocations == 2

(***************************************************************************)
(* Optional values and JavaScript truthiness.                              *)
(***************************************************************************)
Undefined == <<>>
Some(x) == <<x>>
IsDefined(o) == Len(o) > 0

\* process.env.AGENT
AGENT == "A"

HostIds == {"A", "B", "C"}
Availability == {"undefined", "reachable", "unreachable", "no-data"}
Paths == {"/p/", "/q/"}
Intervals == {"daily", "weekly", "monthly"}

\* type Host: available is an optional string, ssh the peers it can connect to
Host(id, available, ssh) == [_id |-> id, available |-> available, ssh |-> ssh]

\* type Destination
Destination(host, path) == [type |-> "host", host |-> host, path |-> path]

\* type Blueprint
Blueprint(id, interval, mode, host, hooks, strategy, destinations) ==
  [_id |-> id, interval |-> interval, mode |-> mode, host |-> host,
   hooks |-> hooks, strategy |-> strategy, destinations |-> destinations]

\* a non-empty string is truthy, undefined is falsy
TruthyString(s) == s # "undefined"

\* retainOnHost / downloadLocally: false, true or {path}
False == [kind |-> "false"]
True == [kind |-> "true"]
PathObject(p) == [kind |-> "object", path |-> p]
Truthy(v) == v.kind # "false"

(***************************************************************************)
(* Date arithmetic of the due check.                                       *)
(***************************************************************************)
MonthLen == <<31, 28, 31, 30, 31, 30, 31, 31, 30, 31, 30, 31>>

RECURSIVE MonthStart(_)
MonthStart(m) == IF m <= 1 THEN 0 ELSE MonthStart(m - 1) + MonthLen[m - 1]

\* Date.getMonth (1-based here), Date.getDate
getMonth(t) == CHOOSE m \in 1..12 : MonthStart(m) <= t /\ t < MonthStart(m) + MonthLen[m]
getDate(t) == t - MonthStart(getMonth(t)) + 1

\* Date.setDate / Date.setMonth: out-of-range values roll over
setDate(t, d) == MonthStart(getMonth(t)) + d - 1
setMonth(t, m) == MonthStart(m) + getDate(t) - 1

\* the switch on blueprint.interval: the date latestRun is moved to
NextDue(t, interval) ==
  CASE interval = "daily" -> setDate(t, getDate(t) + 1)
    [] interval = "weekly" -> setDate(t, getDate(t) + 7)
    [] interval = "monthly" -> setMonth(t, getMonth(t) + 1)

\* createPlan mutates the Date object it is given
MutatedLatestRun(latestRun, interval) ==
  IF IsDefined(latestRun) THEN Some(NextDue(latestRun[1], interval)) ELSE latestRun

NotDueMutant(latestRun, interval, now) ==
  IsDefined(latestRun) /\ NextDue(latestRun[1], interval) >= now

\* if (latestRun) { ...; if (+latestRun > +new Date()) return skipped }
NotDue(latestRun, interval, now) ==
  IsDefined(latestRun) /\ NextDue(latestRun[1], interval) > now

(***************************************************************************)
(* createPlan: validation, classification of destinations, finalisation.   *)
(***************************************************************************)
ValidationErrorMutant(hosts, blueprint, agent) ==
  IF agent \notin DOMAIN hosts THEN "agent host does not exist"
  ELSE IF blueprint.host \notin hosts[agent].ssh THEN "host is unreachable from agent"
  ELSE IF blueprint.host \notin DOMAIN hosts THEN "host does not exist"
  ELSE IF ~TruthyString(hosts[blueprint.host].available) THEN "host is unavailable"
  ELSE "none"

\* the throws of the validation, in order; "none" when all checks pass
ValidationError(hosts, blueprint, agent) ==
  IF blueprint.host \notin DOMAIN hosts THEN "host does not exist"
  ELSE IF ~TruthyString(hosts[blueprint.host].available) THEN "host is unavailable"
  ELSE IF agent \notin DOMAIN hosts THEN "agent host does not exist"
  ELSE IF blueprint.host \notin hosts[agent].ssh THEN "host is unreachable from agent"
  ELSE "none"

\* Array.prototype.find on destination.host
RECURSIVE FindFrom(_, _, _)
FindFrom(destinations, hostId, k) ==
  IF k > Len(destinations) THEN Undefined
  ELSE IF destinations[k].type = "host" /\ destinations[k].host = hostId
       THEN Some(destinations[k])
       ELSE FindFrom(destinations, hostId, k + 1)
Find(destinations, hostId) == FindFrom(destinations, hostId, 1)

KeepDestinationMutant(hosts, host, agent, d) ==
  /\ d.host \in DOMAIN hosts
  /\ hosts[d.host].available # "unreachable"

\* the filter callback that builds `destinations`
KeepDestination(hosts, host, agent, d) ==
  /\ ~(d.host = agent \/ d.host = host._id)
  /\ d.host \in DOMAIN hosts
  /\ hosts[d.host].available # "unreachable"

Destinations(hosts, host, agent, blueprint) ==
  SelectSeq(blueprint.destinations, LAMBDA d : KeepDestination(hosts, host, agent, d))

\* the filter callbacks of the three buckets
IsDirect(hosts, host, d) == d.host \in host.ssh

IsRedirectMutant(hosts, host, d) ==
  ~(host._id \in hosts[d.host].ssh)

IsRedirect(hosts, host, d) ==
  ~(d.host \in host.ssh \/ host._id \in hosts[d.host].ssh)

IsReceiveMutant(hosts, host, d) ==
  host._id \in hosts[d.host].ssh

IsReceive(hosts, host, d) ==
  ~(d.host \in host.ssh \/ host._id \notin hosts[d.host].ssh)

OptionalPath(found) == IF IsDefined(found) THEN PathObject(found[1].path) ELSE False

\* const clone: CloneStrategy = { ... }
Clone(hosts, host, agent, blueprint) ==
  LET destinations == Destinations(hosts, host, agent, blueprint)
  IN [retainOnHost |-> OptionalPath(Find(blueprint.destinations, blueprint.host)),
      downloadLocally |-> OptionalPath(Find(blueprint.destinations, agent)),
      directlyCloneTo |-> SelectSeq(destinations, LAMBDA d : IsDirect(hosts, host, d)),
      redirectCloneTo |-> SelectSeq(destinations, LAMBDA d : IsRedirect(hosts, host, d)),
      receiveCloneFrom |-> SelectSeq(destinations, LAMBDA d : IsReceive(hosts, host, d))]

\* "Error out if we have no destinations"
NoViableDestinations(clone) ==
  /\ Len(clone.redirectCloneTo) = 0
  /\ Len(clone.directlyCloneTo) = 0
  /\ ~Truthy(clone.retainOnHost)
  /\ ~Truthy(clone.downloadLocally)

FinaliseMutant(clone) == clone

\* "Make sure we download it anyways if we are redirecting"
Finalise(clone) ==
  IF Len(clone.redirectCloneTo) > 0 /\ ~Truthy(clone.downloadLocally)
  THEN [clone EXCEPT !.downloadLocally = True]
  ELSE clone

Skipped(id) == [id |-> id, mode |-> "skipped"]
Failed(id) == [id |-> id, mode |-> "failed"]

\* the try block of createPlan for an ssh-agent blueprint
PlanSshAgent(hosts, blueprint, agent) ==
  IF ValidationError(hosts, blueprint, agent) # "none" THEN Failed(blueprint._id)
  ELSE LET clone == Clone(hosts, hosts[blueprint.host], agent, blueprint)
       IN IF NoViableDestinations(clone) THEN Failed(blueprint._id)
          ELSE [id |-> blueprint._id, mode |-> "ssh-agent", hooks |-> blueprint.hooks,
                host |-> hosts[blueprint.host], clone |-> Finalise(clone),
                strategy |-> blueprint.strategy]

\* the value `err` of the catch block (console.info "ERR: ..."), "none" when nothing is thrown
CaughtError(hosts, blueprint, latestRun, agent, now) ==
  IF NotDue(latestRun, blueprint.interval, now) \/ blueprint.mode = "dummy" THEN "none"
  ELSE IF ValidationError(hosts, blueprint, agent) # "none"
       THEN ValidationError(hosts, blueprint, agent)
       ELSE IF NoViableDestinations(Clone(hosts, hosts[blueprint.host], agent, blueprint))
            THEN "no viable destinations"
            ELSE "none"

\* the value createPlan returns
createPlan(hosts, blueprint, latestRun, agent, now) ==
  IF NotDue(latestRun, blueprint.interval, now) THEN Skipped(blueprint._id)
  ELSE IF blueprint.mode = "dummy" THEN Skipped(blueprint._id)
  ELSE PlanSshAgent(hosts, blueprint, agent)

(***************************************************************************)
(* State.                                                                  *)
(***************************************************************************)
VARIABLES
  HOSTS,        \* data.ts: the loaded host catalog, id -> Host
  BLUEPRINTS,   \* data.ts: the loaded blueprints
  LATEST_RUNS,  \* data.ts: blueprint id -> Date of the last successful run
  now,          \* the wall clock (new Date())
  invocation,   \* how many times the agent process was started
  probes,       \* fetchHosts: the connection attempts started, peer id -> state
  failedLast,   \* history: ids of the plans whose run failed in the previous invocation
  calls,        \* the calls of createPlan made so far: argument seen and plan returned
  pc,           \* position of the coordinator (run.ts) or of execute (executor.ts)
  k,            \* run.ts: index of the blueprint being planned
  plans,        \* run.ts: const plans = []
  answer,       \* the operator's answer to the yesno prompt
  i,            \* run.ts: index of the plan being executed
  error,        \* run.ts: let error
  log,          \* run.ts: const log: string[]
  run_log,      \* the run_log collection: records inserted by saveRun
  j,            \* executor.ts: index in the for-of loop being run
  opened,       \* SSH sessions whose ready() returned
  closed,       \* SSH sessions whose finish() was called
  archive,      \* the file pkgFn on the source host: absent, tmp, retained, deleted
  pkgReturned,  \* executor.execute(plan) returned the archive path
  localFile,    \* ./backups/<backupName> on the agent: absent, present, deleted
  thrown,       \* history: execute threw for the current plan
  thrownLog,    \* history: the log lines captured when it threw
  trace,        \* history: the operations execute awaited for the current plan, in order
  finished      \* history: one entry per plan the coordinator is done with

vars == <<HOSTS, BLUEPRINTS, LATEST_RUNS, now, invocation, probes, failedLast, calls, pc, k,
          plans, answer, i, error, log, run_log, j, opened, closed, archive, pkgReturned, localFile, thrown, thrownLog,
          trace, finished>>

\* what no step of the planner, the coordinator or execute changes
catalogVars == <<HOSTS, BLUEPRINTS, now, invocation, probes, failedLast>>
coordinatorVars == <<pc, k, plans, answer, i, error, log, run_log>>
executeVars == <<j, opened, closed, archive, pkgReturned, localFile, thrown, thrownLog, trace,
                 finished>>

SeqsUpTo(S, n) == UNION {[1..m -> S] : m \in 0..n}

NoHooks == [pre |-> FALSE, post |-> FALSE]
Files == [type |-> "files"]
Mongodb == [type |-> "mongodb"]

(***************************************************************************)
(* Inputs of the planner.  Two families: every catalog over HostIds with   *)
(* every short destination list (the blueprint never ran), and a fixed     *)
(* catalog with every last-run date and elapsed time.                      *)
(***************************************************************************)
HostChoices(id) ==
  IF id = AGENT
  THEN {Host(id, "undefined", s) : s \in SUBSET {"B", "C"}}
  ELSE {Host(id, a, s) : a \in Availability, s \in SUBSET ({"B", "C"} \ {id})}

Catalogs ==
  UNION {{h \in [S -> UNION {HostChoices(x) : x \in S}] : \A x \in S : h[x] \in HostChoices(x)}
         : S \in SUBSET HostIds}

DestinationSet == {Destination(h, p) : h \in HostIds, p \in Paths}

TopologyInputs ==
  /\ HOSTS \in Catalogs
  /\ \E ds \in SeqsUpTo(DestinationSet, MaxDestinations) :
       BLUEPRINTS = <<Blueprint("b1", "daily", "ssh-agent", "B", NoHooks, Files, ds)>>
  /\ LATEST_RUNS = [id \in {"b1"} |-> Undefined]
  /\ now = 0

TimeInputs ==
  /\ HOSTS = [id \in {"A", "B"} |->
                IF id = "A" THEN Host("A", "undefined", {"B"}) ELSE Host("B", "reachable", {})]
  /\ \E interval \in Intervals, mode \in {"ssh-agent", "dummy"},
        ds \in {<<>>, <<Destination("B", "/p/")>>} :
       BLUEPRINTS = <<Blueprint("b1", interval, mode, "B", NoHooks, Files, ds)>>
  /\ \E t \in 0..MaxStartDay, e \in 0..MaxElapsed :
       /\ LATEST_RUNS \in {[id \in {"b1"} |-> Undefined], [id \in {"b1"} |-> Some(t)]}
       /\ now = t + e

\* four hosts, all present: two destination hosts that can land in different buckets
FourHostCatalogs ==
  {[id \in {"A", "B", "C", "D"} |->
      CASE id = "A" -> Host("A", "undefined", {"B"} \cup sa)
        [] id = "B" -> Host("B", "reachable", sb)
        [] id = "C" -> Host("C", ac, sc)
        [] id = "D" -> Host("D", ad, sd)]
   : sa \in SUBSET {"C", "D"}, sb \in SUBSET {"C", "D"},
     sc \in SUBSET {"B"}, sd \in SUBSET {"B"},
     ac \in {"reachable", "unreachable"}, ad \in {"reachable", "unreachable"}}

FourHostInputs ==
  /\ HOSTS \in FourHostCatalogs
  /\ \E ds \in SeqsUpTo({Destination(h, "/p/") : h \in {"A", "B", "C", "D"}}, MaxDestinations) :
       BLUEPRINTS = <<Blueprint("b1", "daily", "ssh-agent", "B", NoHooks, Files, ds)>>
  /\ LATEST_RUNS = [id \in {"b1"} |-> Undefined]
  /\ now = 0

\* the state of a process that has just started
FreshProcess ==
  /\ invocation = 1
  /\ probes = <<>>
  /\ failedLast = {}
  /\ calls = <<>>
  /\ k = 1
  /\ plans = <<>>
  /\ answer = "none"
  /\ i = 1
  /\ error = Undefined
  /\ log = <<>>
  /\ j = 1
  /\ opened = {}
  /\ closed = {}
  /\ archive = "absent"
  /\ pkgReturned = FALSE
  /\ localFile = "absent"
  /\ thrown = FALSE
  /\ thrownLog = <<>>
  /\ trace = <<>>
  /\ finished = <<>>

\* the state before the coordinator has done anything: no record inserted yet
Fresh ==
  /\ FreshProcess
  /\ run_log = <<>>

InitPlan ==
  /\ TopologyInputs \/ FourHostInputs \/ TimeInputs
  /\ pc = "createPlan"
  /\ Fresh

\* one call createPlan(HOSTS, blueprint, LATEST_RUNS[blueprint._id], AGENT)
CallCreatePlan ==
  /\ Len(calls) < MaxCalls
  /\ LET blueprint == BLUEPRINTS[1]
         latestRun == LATEST_RUNS[blueprint._id]
     IN /\ calls' = Append(calls, [latestRun |-> latestRun,
                                   plan |-> createPlan(HOSTS, blueprint, latestRun, AGENT, now),
                                   err |-> CaughtError(HOSTS, blueprint, latestRun, AGENT, now)])
        /\ LATEST_RUNS' = [LATEST_RUNS EXCEPT
                             ![blueprint._id] = MutatedLatestRun(latestRun, blueprint.interval)]
  /\ UNCHANGED <<catalogVars, coordinatorVars, executeVars>>

NextPlan == CallCreatePlan

SpecPlan == InitPlan /\ [][NextPlan]_vars

(***************************************************************************)
(* The run coordinator (run.ts) and execute (executor.ts).  One action per *)
(* awaited operation; an operation that rejects leaves execute for the     *)
(* catch block of the coordinator.  The coordinator is modelled as calling *)
(* execute(HOSTS, AGENT, plan, log), the signature of executor.ts.         *)
(***************************************************************************)
BothHooks == [pre |-> TRUE, post |-> TRUE]
PreHookOnly == [pre |-> TRUE, post |-> FALSE]

\* the clock at which the agent is invoked
Today == 40

\* loaded catalogs: every host the agent holds a configuration for was marked
\* reachable by fetchHosts.  In the first, C is pushed to directly and D pulls;
\* in the second, C is served through the agent and the agent has no
\* configuration for D.
LoadedCatalogs ==
  {[id \in {"A", "B", "C", "D"} |->
      CASE id = "A" -> Host("A", "undefined", {"B", "C", "D"})
        [] id = "B" -> Host("B", "reachable", {"C"})
        [] id = "C" -> Host("C", "reachable", {})
        [] id = "D" -> Host("D", "reachable", {"B"})],
   [id \in {"A", "B", "C", "D"} |->
      CASE id = "A" -> Host("A", "undefined", {"B", "C"})
        [] id = "B" -> Host("B", "reachable", {})
        [] id = "C" -> Host("C", "reachable", {})
        [] id = "D" -> Host("D", "no-data", {"B"})]}

\* blueprint documents together with the date of their last successful run
Shape(interval, mode, hooks, strategy, hosts, lastRun) ==
  [interval |-> interval, mode |-> mode, hooks |-> hooks, strategy |-> strategy,
   destinations |-> [x \in DOMAIN hosts |-> Destination(hosts[x], "/p/")],
   lastRun |-> lastRun]

Shapes ==
  {Shape("daily", "ssh-agent", NoHooks, Files, <<"C">>, Undefined),
   Shape("daily", "ssh-agent", BothHooks, Mongodb, <<"B", "D">>, Undefined),
   Shape("weekly", "ssh-agent", NoHooks, Files, <<"A", "C">>, Some(Today - 7)),
   Shape("daily", "ssh-agent", NoHooks, Files, <<>>, Undefined),
   Shape("weekly", "ssh-agent", NoHooks, Files, <<"C">>, Some(Today - 3)),
   Shape("daily", "dummy", NoHooks, Files, <<>>, Undefined),
   Shape("daily", "ssh-agent", PreHookOnly, Mongodb, <<"C", "D">>, Undefined),
   Shape("monthly", "ssh-agent", NoHooks, Files, <<"A", "B">>, Some(Today - 31)),
   Shape("daily", "ssh-agent", NoHooks, Files, <<"C", "D", "A">>, Undefined)}

BlueprintIds == <<"b1", "b2", "b3", "b4">>

Init ==
  /\ HOSTS \in LoadedCatalogs
  /\ \E n \in 1..MaxBlueprints : \E shapes \in [1..n -> Shapes] :
       /\ BLUEPRINTS = [x \in 1..n |->
            Blueprint(BlueprintIds[x], shapes[x].interval, shapes[x].mode, "B",
                      shapes[x].hooks, shapes[x].strategy, shapes[x].destinations)]
       /\ LATEST_RUNS = [id \in {BlueprintIds[x] : x \in 1..n} |->
            shapes[CHOOSE x \in 1..n : BlueprintIds[x] = id].lastRun]
  /\ now = Today
  /\ pc = "planning"
  /\ Fresh

\* for (const blueprint of BLUEPRINTS) { createPlan(...); plans.push(plan) }
PlanBlueprint ==
  /\ pc = "planning"
  /\ k <= Len(BLUEPRINTS)
  /\ LET blueprint == BLUEPRINTS[k]
         latestRun == LATEST_RUNS[blueprint._id]
         plan == createPlan(HOSTS, blueprint, latestRun, AGENT, now)
     IN /\ plans' = IF plan.mode # "skipped" /\ plan.mode # "failed"
                    THEN Append(plans, plan) ELSE plans
        /\ LATEST_RUNS' = [LATEST_RUNS EXCEPT
                             ![blueprint._id] = MutatedLatestRun(latestRun, blueprint.interval)]
  /\ k' = k + 1
  /\ UNCHANGED <<catalogVars, calls, pc, answer, i, error, log, run_log, executeVars>>

\* if (!plans.length) process.exit(0)
NoPlans ==
  /\ pc = "planning"
  /\ k > Len(BLUEPRINTS)
  /\ Len(plans) = 0
  /\ pc' = "exited"
  /\ UNCHANGED <<catalogVars, LATEST_RUNS, calls, k, plans, answer, i, error, log, run_log,
                 executeVars>>

\* await yesno({ question })
AskOperator ==
  /\ pc = "planning"
  /\ k > Len(BLUEPRINTS)
  /\ Len(plans) > 0
  /\ pc' = "confirm"
  /\ UNCHANGED <<catalogVars, LATEST_RUNS, calls, k, plans, answer, i, error, log, run_log,
                 executeVars>>

AnswerYes ==
  /\ pc = "confirm"
  /\ answer' = "yes"
  /\ pc' = "loop"
  /\ UNCHANGED <<catalogVars, LATEST_RUNS, calls, k, plans, i, error, log, run_log, executeVars>>

AnswerNoMutant ==
  /\ pc = "confirm"
  /\ answer' = "no"
  /\ pc' = "loop"
  /\ UNCHANGED <<catalogVars, LATEST_RUNS, calls, k, plans, i, error, log, run_log, executeVars>>

AnswerNo ==
  /\ pc = "confirm"
  /\ answer' = "no"
  /\ pc' = "exited"
  /\ UNCHANGED <<catalogVars, LATEST_RUNS, calls, k, plans, i, error, log, run_log, executeVars>>

ThePlan == plans[i]
Line(text) == <<text>>
LineTo(text, host) == <<text, host>>

\* an SSH configuration owner.ssh[peer] that is not undefined
ConfigDefined(owner, peer) == owner \in DOMAIN HOSTS /\ peer \in HOSTS[owner].ssh

Session(role, host, n) == [plan |-> i, role |-> role, host |-> host, n |-> n]

\* what every step of execute leaves alone
Frame == UNCHANGED <<catalogVars, LATEST_RUNS, calls, k, plans, answer, i, error, run_log,
                     finished>>

\* the operation awaited at the current position and the host it concerns;
\* <<>> when the step awaits nothing
Awaited ==
  LET source == ThePlan.host._id
      clone == ThePlan.clone
  IN CASE pc = "ready" -> <<"ready", source>>
       [] pc = "pre" -> IF ThePlan.hooks.pre THEN <<"pre hook", source>> ELSE <<>>
       [] pc = "strategy" ->
            IF ThePlan.strategy.type = "files" THEN <<"tar", source>> ELSE <<"mongodump", source>>
       [] pc = "tarDump" -> <<"tar", source>>
       [] pc = "rmDump" -> <<"rm dump", source>>
       [] pc = "post" -> IF ThePlan.hooks.post THEN <<"post hook", source>> ELSE <<>>
       [] pc = "direct" ->
            IF j <= Len(clone.directlyCloneTo)
            THEN <<"scpUpload", clone.directlyCloneTo[j].host>> ELSE <<>>
       [] pc = "receive" ->
            IF j <= Len(clone.receiveCloneFrom)
            THEN <<"ready", clone.receiveCloneFrom[j].host>> ELSE <<>>
       [] pc = "receiveScp" -> <<"scpDownload", clone.receiveCloneFrom[j].host>>
       [] pc = "receiveFinish" -> <<"finish", clone.receiveCloneFrom[j].host>>
       [] pc = "download" ->
            IF Truthy(clone.downloadLocally) THEN <<"download", source>> ELSE <<>>
       [] pc = "redirect" ->
            IF j <= Len(clone.redirectCloneTo)
            THEN <<"ready", clone.redirectCloneTo[j].host>> ELSE <<>>
       [] pc = "redirectUpload" -> <<"upload", clone.redirectCloneTo[j].host>>
       [] pc = "redirectFinish" -> <<"finish", clone.redirectCloneTo[j].host>>
       [] pc = "local" ->
            IF clone.downloadLocally.kind # "object" THEN <<"rm local", AGENT>> ELSE <<>>
       [] pc = "retain" ->
            IF Truthy(clone.retainOnHost) THEN <<"move", source>> ELSE <<"delete", source>>
       [] pc = "finish" -> <<"finish", source>>
       [] OTHER -> <<>>

\* the entry of the history for the awaited operation ending with `outcome`;
\* `text` is the text of the error where the code looks at it
Event(outcome, text) ==
  IF Awaited = <<>> THEN <<>>
  ELSE <<[op |-> Awaited[1], host |-> Awaited[2], outcome |-> outcome, text |-> text]>>

Outcome(outcome) == Event(outcome, <<>>)

\* an awaited operation rejects after `lines` were logged
Throws(lines) ==
  /\ pc' = "catch"
  /\ log' = log \o lines
  /\ thrown' = TRUE
  /\ thrownLog' = log \o lines
  /\ trace' = trace \o Outcome("error")

\* an awaited operation ends with `outcome` after `lines` were logged, and execute goes on
Step(lines, next, outcome) ==
  /\ pc' = next
  /\ log' = log \o lines
  /\ trace' = trace \o Outcome(outcome)
  /\ UNCHANGED <<thrown, thrownLog>>

\* an awaited operation resolves after `lines` were logged
Resolves(lines, next) == Step(lines, next, "ok")

\* the exit status of a hook command: zero or not
ExitStatuses == {"exit 0", "exit 1"}

\* for (const plan of plans) { let error; const log = []; try { await execute(...) }
LoopNext ==
  /\ pc = "loop"
  /\ i <= Len(plans)
  /\ error' = Undefined
  /\ IF ThePlan.mode # "ssh-agent"
     THEN /\ log' = <<Line("Skipping plan")>>
          /\ pc' = "save"
     ELSE /\ log' = <<Line("Preparing to run plan")>>
          /\ pc' = "ready"
  /\ j' = 1
  /\ archive' = "absent"
  /\ pkgReturned' = FALSE
  /\ localFile' = "absent"
  /\ thrown' = FALSE
  /\ thrownLog' = <<>>
  /\ trace' = <<>>
  /\ UNCHANGED <<catalogVars, LATEST_RUNS, calls, k, plans, answer, i, run_log, opened, closed,
                 finished>>

\* the loop is over: process.exit(0)
LoopEnd ==
  /\ pc = "loop"
  /\ i > Len(plans)
  /\ pc' = "exited"
  /\ UNCHANGED <<catalogVars, LATEST_RUNS, calls, k, plans, answer, i, error, log, run_log,
                 executeVars>>

\* createSSHExecutor(hosts[agentId].ssh[plan.host._id]); await executor.ready()
SourceReady ==
  /\ pc = "ready"
  /\ \/ /\ ConfigDefined(AGENT, ThePlan.host._id)
        /\ opened' = opened \cup {Session("source", ThePlan.host._id, 0)}
        /\ Resolves(<<Line("Executor ready, running the strategy")>>, "pre")
     \/ /\ Throws(<<>>)
        /\ UNCHANGED opened
  /\ UNCHANGED <<j, closed, archive, pkgReturned, localFile>>
  /\ Frame

\* SSHExecutor.execute: if (plan.hooks?.pre) await execCommand(...), which resolves
\* whatever the exit code of the command and rejects when the channel fails
PreHook ==
  /\ pc = "pre"
  /\ \/ /\ ~ThePlan.hooks.pre
        /\ Resolves(<<>>, "strategy")
     \/ /\ ThePlan.hooks.pre
        /\ \E status \in ExitStatuses : Step(<<>>, "strategy", status)
     \/ /\ ThePlan.hooks.pre
        /\ Throws(<<>>)
  /\ UNCHANGED <<j, opened, closed, archive, pkgReturned, localFile>>
  /\ Frame

\* case "files": await this.ssh.exec("tar", ["czvfP", pkgFn, ...paths])
TarFiles ==
  /\ pc = "strategy"
  /\ ThePlan.strategy.type = "files"
  /\ \/ /\ archive' = "tmp"
        /\ Resolves(<<>>, "post")
     \/ /\ Throws(<<>>)
        /\ UNCHANGED archive
  /\ UNCHANGED <<j, opened, closed, pkgReturned, localFile>>
  /\ Frame

\* texts of the error exec("mongodump") can reject with, as sequences of words
MongodumpErrors ==
  {<<"Failed", "to", "connect">>, <<"dump", "Failed">>, <<"connection", "refused">>,
   <<"failed">>}

IncludesFailedMutant(text) == \E x \in DOMAIN text : text[x] \in {"Failed", "failed"}

\* ("" + err).toString().includes("Failed")
IncludesFailed(text) == \E x \in DOMAIN text : text[x] = "Failed"

\* case "mongodb": try { await exec("mongodump", ...) } catch (err) { rethrow if
\* the text includes "Failed" }
Mongodump ==
  /\ pc = "strategy"
  /\ ThePlan.strategy.type = "mongodb"
  /\ \/ Resolves(<<>>, "tarDump")
     \/ \E text \in MongodumpErrors :
          /\ trace' = trace \o Event("error", text)
          /\ UNCHANGED log
          /\ IF IncludesFailed(text)
             THEN /\ pc' = "catch"
                  /\ thrown' = TRUE
                  /\ thrownLog' = log
             ELSE /\ pc' = "tarDump"
                  /\ UNCHANGED <<thrown, thrownLog>>
  /\ UNCHANGED <<j, opened, closed, archive, pkgReturned, localFile>>
  /\ Frame

\* await this.ssh.exec("tar", ["cvfP", pkgFn, fn])
TarDump ==
  /\ pc = "tarDump"
  /\ \/ /\ archive' = "tmp"
        /\ Resolves(<<>>, "rmDump")
     \/ /\ Throws(<<>>)
        /\ UNCHANGED archive
  /\ UNCHANGED <<j, opened, closed, pkgReturned, localFile>>
  /\ Frame

\* await this.ssh.exec("rm", ["-r", fn])
RmDump ==
  /\ pc = "rmDump"
  /\ \/ Resolves(<<>>, "post")
     \/ Throws(<<>>)
  /\ UNCHANGED <<j, opened, closed, archive, pkgReturned, localFile>>
  /\ Frame

\* if (plan.hooks?.post) await execCommand(...); return pkgFn
PostHook ==
  /\ pc = "post"
  /\ \/ /\ ~ThePlan.hooks.post
        /\ Resolves(<<>>, "direct")
        /\ pkgReturned' = TRUE
     \/ /\ ThePlan.hooks.post
        /\ \E status \in ExitStatuses : Step(<<>>, "direct", status)
        /\ pkgReturned' = TRUE
     \/ /\ ThePlan.hooks.post
        /\ Throws(<<>>)
        /\ UNCHANGED pkgReturned
  /\ j' = 1
  /\ UNCHANGED <<opened, closed, archive, localFile>>
  /\ Frame

\* for (const host of directlyCloneTo) { log(...); await executor.scpUpload(pkgFn,
\* hosts[plan.host._id].ssh[host.host], host.path + backupName) }
DirectUpload ==
  /\ pc = "direct"
  /\ j <= Len(ThePlan.clone.directlyCloneTo)
  /\ LET host == ThePlan.clone.directlyCloneTo[j]
         line == LineTo("Uploading the backup to", host.host)
     IN \/ /\ ConfigDefined(ThePlan.host._id, host.host)
           /\ Resolves(<<line>>, "direct")
           /\ j' = j + 1
        \/ /\ Throws(<<line>>)
           /\ UNCHANGED j
  /\ UNCHANGED <<opened, closed, archive, pkgReturned, localFile>>
  /\ Frame

DirectDoneMutant ==
  /\ pc = "direct"
  /\ j > Len(ThePlan.clone.directlyCloneTo)
  /\ Resolves(<<>>, "download")
  /\ j' = 1
  /\ UNCHANGED <<opened, closed, archive, pkgReturned, localFile>>
  /\ Frame

DirectDone ==
  /\ pc = "direct"
  /\ j > Len(ThePlan.clone.directlyCloneTo)
  /\ Resolves(<<>>, "receive")
  /\ j' = 1
  /\ UNCHANGED <<opened, closed, archive, pkgReturned, localFile>>
  /\ Frame

\* for (const host of receiveCloneFrom) { log(...);
\* createSSHExecutor(hosts[agentId].ssh[host.host]); await downloadExecutor.ready()
ReceiveReady ==
  /\ pc = "receive"
  /\ j <= Len(ThePlan.clone.receiveCloneFrom)
  /\ LET host == ThePlan.clone.receiveCloneFrom[j]
         line == LineTo("Downloading the backup to", host.host)
     IN \/ /\ ConfigDefined(AGENT, host.host)
           /\ opened' = opened \cup {Session("receive", host.host, j)}
           /\ Resolves(<<line>>, "receiveScp")
        \/ /\ Throws(<<line>>)
           /\ UNCHANGED opened
  /\ UNCHANGED <<j, closed, archive, pkgReturned, localFile>>
  /\ Frame

\* await downloadExecutor.scpDownload(pkgFn, hosts[host.host].ssh[plan.host._id], ...)
ReceiveScp ==
  /\ pc = "receiveScp"
  /\ \/ /\ ConfigDefined(ThePlan.clone.receiveCloneFrom[j].host, ThePlan.host._id)
        /\ Resolves(<<>>, "receiveFinish")
     \/ Throws(<<>>)
  /\ UNCHANGED <<j, opened, closed, archive, pkgReturned, localFile>>
  /\ Frame

\* await downloadExecutor.finish() }
ReceiveFinish ==
  /\ pc = "receiveFinish"
  /\ closed' = closed \cup {Session("receive", ThePlan.clone.receiveCloneFrom[j].host, j)}
  /\ Resolves(<<>>, "receive")
  /\ j' = j + 1
  /\ UNCHANGED <<opened, archive, pkgReturned, localFile>>
  /\ Frame

ReceiveDone ==
  /\ pc = "receive"
  /\ j > Len(ThePlan.clone.receiveCloneFrom)
  /\ Resolves(<<>>, "download")
  /\ j' = 1
  /\ UNCHANGED <<opened, closed, archive, pkgReturned, localFile>>
  /\ Frame

\* if (downloadLocally) { log(...); await executor.download(pkgFn, localFile)
Download ==
  /\ pc = "download"
  /\ \/ /\ ~Truthy(ThePlan.clone.downloadLocally)
        /\ Resolves(<<>>, "retain")
        /\ UNCHANGED localFile
     \/ /\ Truthy(ThePlan.clone.downloadLocally)
        /\ localFile' = "present"
        /\ Resolves(<<Line("Downloading the backup to the agent")>>, "redirect")
     \/ /\ Truthy(ThePlan.clone.downloadLocally)
        /\ Throws(<<Line("Downloading the backup to the agent")>>)
        /\ UNCHANGED localFile
  /\ j' = 1
  /\ UNCHANGED <<opened, closed, archive, pkgReturned>>
  /\ Frame

\* for (const host of redirectCloneTo) { log(...);
\* createSSHExecutor(hosts[agentId].ssh[host.host]); await uploadExecutor.ready()
RedirectReady ==
  /\ pc = "redirect"
  /\ j <= Len(ThePlan.clone.redirectCloneTo)
  /\ LET host == ThePlan.clone.redirectCloneTo[j]
         line == LineTo("Uploading the local backup to", host.host)
     IN \/ /\ ConfigDefined(AGENT, host.host)
           /\ opened' = opened \cup {Session("redirect", host.host, j)}
           /\ Resolves(<<line>>, "redirectUpload")
        \/ /\ Throws(<<line>>)
           /\ UNCHANGED opened
  /\ UNCHANGED <<j, closed, archive, pkgReturned, localFile>>
  /\ Frame

\* await uploadExecutor.upload(localFile, host.path + backupName)
RedirectUpload ==
  /\ pc = "redirectUpload"
  /\ \/ Resolves(<<>>, "redirectFinish")
     \/ Throws(<<>>)
  /\ UNCHANGED <<j, opened, closed, archive, pkgReturned, localFile>>
  /\ Frame

\* await uploadExecutor.finish() }
RedirectFinish ==
  /\ pc = "redirectFinish"
  /\ closed' = closed \cup {Session("redirect", ThePlan.clone.redirectCloneTo[j].host, j)}
  /\ Resolves(<<>>, "redirect")
  /\ j' = j + 1
  /\ UNCHANGED <<opened, archive, pkgReturned, localFile>>
  /\ Frame

RedirectDone ==
  /\ pc = "redirect"
  /\ j > Len(ThePlan.clone.redirectCloneTo)
  /\ Resolves(<<>>, "local")
  /\ UNCHANGED <<j, opened, closed, archive, pkgReturned, localFile>>
  /\ Frame

\* if (typeof downloadLocally === "object") { retain } else { log(...); await rm(localFile) } }
LocalCleanup ==
  /\ pc = "local"
  /\ \/ /\ ThePlan.clone.downloadLocally.kind = "object"
        /\ Resolves(<<>>, "retain")
        /\ UNCHANGED localFile
     \/ /\ ThePlan.clone.downloadLocally.kind # "object"
        /\ localFile' = "deleted"
        /\ Resolves(<<Line("Removing local copy of backup")>>, "retain")
     \/ /\ ThePlan.clone.downloadLocally.kind # "object"
        /\ Throws(<<Line("Removing local copy of backup")>>)
        /\ UNCHANGED localFile
  /\ UNCHANGED <<j, opened, closed, archive, pkgReturned>>
  /\ Frame

\* if (retainOnHost) { log(...); await executor.move(pkgFn, retainOnHost.path + backupName) }
\* else { log(...); await executor.delete(pkgFn) }
RetainOrDelete ==
  /\ pc = "retain"
  /\ \/ /\ Truthy(ThePlan.clone.retainOnHost)
        /\ \/ /\ archive' = "retained"
              /\ Resolves(<<Line("Retaining backup on the remote host")>>, "finish")
           \/ /\ Throws(<<Line("Retaining backup on the remote host")>>)
              /\ UNCHANGED archive
     \/ /\ ~Truthy(ThePlan.clone.retainOnHost)
        /\ \/ /\ archive' = "deleted"
              /\ Resolves(<<Line("Removing backup from remote host")>>, "finish")
           \/ /\ Throws(<<Line("Removing backup from remote host")>>)
              /\ UNCHANGED archive
  /\ UNCHANGED <<j, opened, closed, pkgReturned, localFile>>
  /\ Frame

\* await executor.finish(); log(`Plan complete`)
SourceFinish ==
  /\ pc = "finish"
  /\ closed' = closed \cup {Session("source", ThePlan.host._id, 0)}
  /\ Resolves(<<Line("Plan complete")>>, "save")
  /\ UNCHANGED <<j, opened, archive, pkgReturned, localFile>>
  /\ Frame

CatchMutant ==
  /\ pc = "catch"
  /\ error' = Some("Error")
  /\ pc' = "exited"
  /\ UNCHANGED <<catalogVars, LATEST_RUNS, calls, k, plans, answer, i, log, run_log, executeVars>>

\* catch (err) { error = "" + err; console.error(err) }
Catch ==
  /\ pc = "catch"
  /\ error' = Some("Error")
  /\ pc' = "save"
  /\ UNCHANGED <<catalogVars, LATEST_RUNS, calls, k, plans, answer, i, log, run_log, executeVars>>

SaveRunMutant ==
  /\ pc = "save"
  /\ finished' = Append(finished, [threw |-> thrown, logAtThrow |-> thrownLog,
                                   archive |-> archive, returned |-> pkgReturned,
                                   localFile |-> localFile])
  /\ i' = i + 1
  /\ pc' = "loop"
  /\ UNCHANGED <<catalogVars, LATEST_RUNS, calls, k, plans, answer, error, log, run_log, j,
                 opened, closed, archive, pkgReturned, localFile, thrown, thrownLog, trace>>

RunRecordMutant(plan, lines, err) ==
  [timestamp |-> now, plan |-> plan, log |-> lines, error |-> Undefined]

\* saveRun: db.collection("run_log").insertOne({ timestamp, plan, log, error })
RunRecord(plan, lines, err) == [timestamp |-> now, plan |-> plan, log |-> lines, error |-> err]

\* await saveRun(plan, log, error), and on to the next plan
SaveRun ==
  /\ pc = "save"
  /\ run_log' = Append(run_log, RunRecord(ThePlan, log, error))
  /\ finished' = Append(finished, [threw |-> thrown, logAtThrow |-> thrownLog,
                                   archive |-> archive, returned |-> pkgReturned,
                                   localFile |-> localFile])
  /\ i' = i + 1
  /\ pc' = "loop"
  /\ UNCHANGED <<catalogVars, LATEST_RUNS, calls, k, plans, answer, error, log, j, opened,
                 closed, archive, pkgReturned, localFile, thrown, thrownLog, trace>>

Next ==
  \/ PlanBlueprint \/ NoPlans \/ AskOperator \/ AnswerYes \/ AnswerNo
  \/ LoopNext \/ LoopEnd
  \/ SourceReady \/ PreHook \/ TarFiles \/ Mongodump \/ TarDump \/ RmDump \/ PostHook
  \/ DirectUpload \/ DirectDone
  \/ ReceiveReady \/ ReceiveScp \/ ReceiveFinish \/ ReceiveDone
  \/ Download \/ RedirectReady \/ RedirectUpload \/ RedirectFinish \/ RedirectDone
  \/ LocalCleanup \/ RetainOrDelete \/ SourceFinish
  \/ Catch \/ SaveRun

Spec == Init /\ [][Next]_vars

(***************************************************************************)
(* Successive invocations of the agent.  The run_log collection outlives   *)
(* the process: each start loads LATEST_RUNS from it with findLastRun      *)
(* (data.ts) and the coordinator then runs as above.                       *)
(***************************************************************************)
findLastRunMutant(runLog, planId) ==
  LET matching == {n \in DOMAIN runLog : runLog[n].plan.id = planId}
  IN IF matching = {} THEN Undefined
     ELSE Some(runLog[CHOOSE n \in matching :
                        \A o \in matching : runLog[o].timestamp <= runLog[n].timestamp].timestamp)

\* findOne({ "plan.id": planId, error absent or null }, { sort: { timestamp: -1 } })?.timestamp
findLastRun(runLog, planId) ==
  LET matching == {n \in DOMAIN runLog :
                     runLog[n].plan.id = planId /\ ~IsDefined(runLog[n].error)}
  IN IF matching = {} THEN Undefined
     ELSE Some(runLog[CHOOSE n \in matching :
                        \A o \in matching : runLog[o].timestamp <= runLog[n].timestamp].timestamp)

\* a record left in run_log by an earlier invocation
PriorRecord(id, timestamp, err) ==
  [timestamp |-> timestamp, plan |-> [id |-> id, mode |-> "ssh-agent"], log |-> <<>>,
   error |-> err]

\* contents of run_log when the agent starts
Histories ==
  {<<>>,
   <<PriorRecord("b1", Today - 7, Undefined)>>,
   <<PriorRecord("b1", Today - 1, Undefined)>>,
   <<PriorRecord("b1", Today - 1, Some("Error"))>>,
   <<PriorRecord("b1", Today - 7, Undefined), PriorRecord("b1", Today - 1, Some("Error"))>>,
   <<PriorRecord("b1", Today - 8, Undefined), PriorRecord("b1", Today - 1, Undefined)>>,
   <<PriorRecord("b9", Today - 1, Undefined)>>}

\* weekly blueprints that validate on both loaded catalogs
RunShapes ==
  {Shape("weekly", "ssh-agent", NoHooks, Files, <<"C", "D", "A">>, Undefined),
   Shape("weekly", "ssh-agent", BothHooks, Mongodb, <<"B", "D">>, Undefined),
   Shape("weekly", "ssh-agent", NoHooks, Files, <<"A", "C">>, Undefined)}

InitRuns ==
  /\ HOSTS \in LoadedCatalogs
  /\ \E shape \in RunShapes :
       BLUEPRINTS = <<Blueprint("b1", shape.interval, shape.mode, "B", shape.hooks,
                                shape.strategy, shape.destinations)>>
  /\ LATEST_RUNS = [id \in {"b1"} |-> Undefined]
  /\ now = Today
  /\ pc = "load"
  /\ FreshProcess
  /\ run_log \in Histories

\* for (const blueprint of BLUEPRINTS) LATEST_RUNS[blueprint._id] = await findLastRun(...)
LoadLatestRuns ==
  /\ pc = "load"
  /\ LATEST_RUNS' = [id \in DOMAIN LATEST_RUNS |-> findLastRun(run_log, id)]
  /\ pc' = "planning"
  /\ UNCHANGED <<catalogVars, calls, k, plans, answer, i, error, log, run_log, executeVars>>

\* the process has exited and the agent is started again, one day later
StartAgain ==
  /\ pc = "exited"
  /\ invocation < MaxInvocations
  /\ invocation' = invocation + 1
  /\ now' = now + 1
  /\ failedLast' = {plans[p].id : p \in {q \in DOMAIN finished : finished[q].threw}}
  /\ LATEST_RUNS' = [id \in DOMAIN LATEST_RUNS |-> Undefined]
  /\ pc' = "load"
  /\ k' = 1
  /\ plans' = <<>>
  /\ answer' = "none"
  /\ i' = 1
  /\ error' = Undefined
  /\ log' = <<>>
  /\ j' = 1
  /\ opened' = {}
  /\ closed' = {}
  /\ archive' = "absent"
  /\ pkgReturned' = FALSE
  /\ localFile' = "absent"
  /\ thrown' = FALSE
  /\ thrownLog' = <<>>
  /\ trace' = <<>>
  /\ finished' = <<>>
  /\ UNCHANGED <<HOSTS, BLUEPRINTS, probes, calls, run_log>>

NextRuns == LoadLatestRuns \/ StartAgain \/ Next

SpecRuns == InitRuns /\ [][NextRuns]_vars

(***************************************************************************)
(* fetchHosts.  HOSTS starts as the documents of the hosts collection and  *)
(* fetchHosts marks the peers of the agent.  ssh.connect is called without *)
(* await and ssh.dispose() right after it, so each connection attempt      *)
(* settles after fetchHosts has gone on: it connects (and stays open, the  *)
(* dispose having come too early) or it is rejected.                       *)
(***************************************************************************)
\* the peers the loop probes: keys of agentHost.ssh that are in hosts
Probed(hosts, agent) ==
  IF agent \in DOMAIN hosts THEN hosts[agent].ssh \cap DOMAIN hosts ELSE {}

\* the record fetchHosts returns
fetchHosts(hosts, agent) ==
  [id \in DOMAIN hosts |->
     IF id \in Probed(hosts, agent) THEN [hosts[id] EXCEPT !.available = "reachable"]
     ELSE hosts[id]]

InitFetch ==
  /\ HOSTS \in Catalogs
  /\ BLUEPRINTS = <<>>
  /\ LATEST_RUNS = <<>>
  /\ now = Today
  /\ pc = "fetchHosts"
  /\ Fresh

\* export const HOSTS = await fetchHosts()
FetchHosts ==
  /\ pc = "fetchHosts"
  /\ HOSTS' = fetchHosts(HOSTS, AGENT)
  /\ probes' = [id \in Probed(HOSTS, AGENT) |-> "pending"]
  /\ pc' = "fetched"
  /\ UNCHANGED <<BLUEPRINTS, now, invocation, failedLast, LATEST_RUNS, calls, k, plans, answer,
                 i, error, log, run_log, executeVars>>

\* a connection attempt settles: the peer accepts the connection
ProbeConnects ==
  /\ \E id \in DOMAIN probes :
       /\ probes[id] = "pending"
       /\ probes' = [probes EXCEPT ![id] = "connected"]
  /\ UNCHANGED <<HOSTS, BLUEPRINTS, now, invocation, failedLast, LATEST_RUNS, calls,
                 coordinatorVars, executeVars>>

\* a connection attempt settles: the promise of connect is rejected
ProbeFails ==
  /\ \E id \in DOMAIN probes :
       /\ probes[id] = "pending"
       /\ probes' = [probes EXCEPT ![id] = "failed"]
  /\ UNCHANGED <<HOSTS, BLUEPRINTS, now, invocation, failedLast, LATEST_RUNS, calls,
                 coordinatorVars, executeVars>>

NextFetch == FetchHosts \/ ProbeConnects \/ ProbeFails

SpecFetch == InitFetch /\ [][NextFetch]_vars

(***************************************************************************)
(* Properties of the coordinator and of execute.                           *)
(***************************************************************************)
\* execute has returned or thrown for plan number p
ExecuteLeft(p) == p < i \/ (p = i /\ pc \in {"catch", "save"})

\* C1: once execute has been left for a plan, on whatever path, every SSH session
\* opened for that plan has been closed.
C1_SessionsReleased ==
  \A s \in opened : ExecuteLeft(s.plan) => s \in closed

\* C2: when the coordinator is done with a plan whose archive was produced, the
\* archive was moved (retainOnHost set) or deleted (not set), also when a later
\* step failed.
C2_ArchiveMovedOrDeleted ==
  \A p \in DOMAIN finished :
    finished[p].returned =>
      finished[p].archive =
        (IF Truthy(plans[p].clone.retainOnHost) THEN "retained" ELSE "deleted")

RecordsOf(id) == {n \in DOMAIN run_log : run_log[n].plan.id = id}

\* C3: every plan the coordinator is done with has exactly one record in run_log,
\* with an error if and only if execute threw; a plan not yet done has none.
C3_OneRecordPerRun ==
  \A p \in DOMAIN plans :
    IF p < i
    THEN /\ Cardinality(RecordsOf(plans[p].id)) = 1
         /\ \A n \in RecordsOf(plans[p].id) :
              IsDefined(run_log[n].error) <=> finished[p].threw
    ELSE RecordsOf(plans[p].id) = {}

\* two plans were run: the first failed, the second did not
C3_Witness ==
  /\ pc = "exited"
  /\ Len(finished) = 2
  /\ finished[1].threw
  /\ ~finished[2].threw

\* C4: a plan for which execute threw has a record with the error and the log
\* lines captured up to the throw, and when the coordinator exits after a yes
\* every plan, also those after a failed one, was executed and recorded in order.
C4_FailureAbortsOnlyItsPlan ==
  /\ \A p \in DOMAIN finished :
       finished[p].threw =>
         /\ p \in DOMAIN run_log
         /\ run_log[p].plan = plans[p]
         /\ IsDefined(run_log[p].error)
         /\ run_log[p].log = finished[p].logAtThrow
  /\ (pc = "exited" /\ answer = "yes") =>
       /\ Len(run_log) = Len(plans)
       /\ \A p \in DOMAIN plans :
            /\ run_log[p].plan = plans[p]
            /\ Len(run_log[p].log) > 0

\* the first of two plans failed in a transfer and the second was still recorded
C4_Witness ==
  /\ pc = "exited"
  /\ Len(plans) = 2
  /\ Len(run_log) = 2
  /\ finished[1].threw
  /\ finished[1].returned
  /\ Len(run_log[1].log) > 2

\* C13: a plan whose archive was staged on the agent leaves no local file
\* behind when downloadLocally is the literal true, including when an upload
\* to a redirectCloneTo destination failed; the file is kept only when
\* downloadLocally is a {path} object.
C13_LocalCopyRemoved ==
  \A p \in DOMAIN finished :
    finished[p].localFile # "absent" =>
      finished[p].localFile =
        (IF plans[p].clone.downloadLocally = True THEN "deleted" ELSE "present")

\* C15: only ssh-agent plans are kept, recorded and given an SSH session, and
\* only after the operator answered yes; with no plan kept the coordinator
\* exits without asking, and after a no it exits with nothing run or recorded.
C15_OnlyConfirmedSshAgentPlansRun ==
  /\ \A p \in DOMAIN plans : plans[p].mode = "ssh-agent"
  /\ \A n \in DOMAIN run_log :
       /\ run_log[n].plan.mode = "ssh-agent"
       /\ \E p \in DOMAIN plans : run_log[n].plan = plans[p]
  /\ \A s \in opened : plans[s.plan].mode = "ssh-agent"
  /\ (run_log # <<>> \/ opened # {} \/ trace # <<>>) => answer = "yes"
  /\ (pc # "planning" /\ Len(plans) = 0) => pc = "exited" /\ answer = "none"
  /\ answer = "no" => pc = "exited" /\ run_log = <<>> /\ opened = {} /\ trace = <<>>

\* of two blueprints one was skipped or failed and the other was run after a yes
C15_Witness ==
  /\ pc = "exited"
  /\ answer = "yes"
  /\ Len(BLUEPRINTS) = 2
  /\ Len(plans) = 1
  /\ Len(run_log) = 1

\* for each destination of the bucket, in order, the operations `ops`
PerHost(bucket, ops) ==
  [x \in 1..(Len(bucket) * Len(ops)) |->
     <<ops[((x - 1) % Len(ops)) + 1], bucket[((x - 1) \div Len(ops)) + 1].host>>]

\* the normative order of the operations of one plan
ExpectedSteps(plan) ==
  LET source == plan.host._id
      clone == plan.clone
      build == IF plan.strategy.type = "files" THEN <<<<"tar", source>>>>
               ELSE <<<<"mongodump", source>>, <<"tar", source>>, <<"rm dump", source>>>>
      staged == <<<<"download", source>>>>
                \o PerHost(clone.redirectCloneTo, <<"ready", "upload", "finish">>)
                \o (IF clone.downloadLocally.kind = "object" THEN <<>>
                    ELSE <<<<"rm local", AGENT>>>>)
  IN <<<<"ready", source>>>>
     \o (IF plan.hooks.pre THEN <<<<"pre hook", source>>>> ELSE <<>>)
     \o build
     \o (IF plan.hooks.post THEN <<<<"post hook", source>>>> ELSE <<>>)
     \o PerHost(clone.directlyCloneTo, <<"scpUpload">>)
     \o PerHost(clone.receiveCloneFrom, <<"ready", "scpDownload", "finish">>)
     \o (IF Truthy(clone.downloadLocally) THEN staged ELSE <<>>)
     \o <<<<(IF Truthy(clone.retainOnHost) THEN "move" ELSE "delete"), source>>>>
     \o <<<<"finish", source>>>>

StepsOf(t) == [x \in DOMAIN t |-> <<t[x].op, t[x].host>>]

IsPrefix(a, b) == Len(a) <= Len(b) /\ \A x \in DOMAIN a : a[x] = b[x]

\* C17: the operations of a plan are awaited in the normative order: archive
\* build, every direct push, every receive pull, then the download to the
\* agent, every redirect upload and the local delete or retain, then the move
\* or delete on the source, then finish() of the source session.  No download
\* to the agent comes before a direct or receive transfer, and no transfer
\* comes after the archive was moved or deleted.
C17_NormativeOrder ==
  /\ pc \notin {"planning", "confirm", "loop", "exited"} =>
       /\ IsPrefix(StepsOf(trace), ExpectedSteps(ThePlan))
       /\ (pc = "save" /\ ~thrown) => StepsOf(trace) = ExpectedSteps(ThePlan)
  /\ \A x \in DOMAIN trace : \A y \in DOMAIN trace :
       /\ (trace[x].op = "download" /\ trace[y].op \in {"scpUpload", "scpDownload"}) => y < x
       /\ (trace[x].op \in {"move", "delete"}
           /\ trace[y].op \in {"scpUpload", "scpDownload", "download", "upload"}) => y < x

\* a plan with a direct, a receive and a local destination ran to completion
C17_Witness ==
  /\ pc = "save"
  /\ ~thrown
  /\ Len(ThePlan.clone.directlyCloneTo) > 0
  /\ Len(ThePlan.clone.receiveCloneFrom) > 0
  /\ Truthy(ThePlan.clone.downloadLocally)

\* C20: when the pre hook exits non-zero no archive command is run after it,
\* when the pre or the post hook exits non-zero execute does not return the
\* archive path, and the run is recorded with an error.
C20_HookFailureFailsExecute ==
  \A x \in DOMAIN trace :
    (trace[x].op \in {"pre hook", "post hook"} /\ trace[x].outcome = "exit 1") =>
      /\ trace[x].op = "pre hook" =>
           \A y \in DOMAIN trace : y > x => trace[y].op \notin {"tar", "mongodump"}
      /\ ~pkgReturned
      /\ pc = "save" => IsDefined(error)

\* the records of run_log for the blueprint that have no error
Successes(id) == {n \in DOMAIN run_log : run_log[n].plan.id = id /\ ~IsDefined(run_log[n].error)}

\* C14: the date loaded for a blueprint is the timestamp of its most recent
\* record without an error, and none when it has no such record; a blueprint
\* none of whose runs succeeded is planned, and so is one whose run failed in
\* the previous invocation.
C14_FailedRunsStayDue ==
  /\ (pc = "planning" /\ k = 1) =>
       \A id \in DOMAIN LATEST_RUNS :
         IF Successes(id) = {} THEN LATEST_RUNS[id] = Undefined
         ELSE /\ IsDefined(LATEST_RUNS[id])
              /\ \E n \in Successes(id) : run_log[n].timestamp = LATEST_RUNS[id][1]
              /\ \A n \in Successes(id) : run_log[n].timestamp <= LATEST_RUNS[id][1]
  /\ pc = "confirm" =>
       \A x \in DOMAIN BLUEPRINTS :
         Successes(BLUEPRINTS[x]._id) = {} => \E p \in DOMAIN plans : plans[p].id = BLUEPRINTS[x]._id
  /\ pc \notin {"load", "planning"} =>
       \A id \in failedLast : \E p \in DOMAIN plans : plans[p].id = id

\* the blueprint last succeeded a week ago, its run failed yesterday and it is
\* planned again today
C14_Witness ==
  /\ invocation = 2
  /\ pc = "confirm"
  /\ failedLast = {"b1"}
  /\ Successes("b1") # {}
  /\ \E n \in DOMAIN run_log : run_log[n].plan.id = "b1" /\ IsDefined(run_log[n].error)

\* C19: once fetchHosts has returned, every probed peer is marked reachable if
\* its probe connected and unreachable if it failed, the probe has settled
\* before the mark is made, no probe session is left open, and without an
\* agent host no host is touched.
C19_ProbeVerdict ==
  pc = "fetched" =>
    /\ \A id \in DOMAIN probes :
         /\ probes[id] \in {"failed", "closed"}
         /\ HOSTS[id].available =
              (IF probes[id] = "failed" THEN "unreachable" ELSE "reachable")
    /\ AGENT \notin DOMAIN HOSTS => probes = <<>>

\* position of the blueprint with this id in BLUEPRINTS
BlueprintIndex(id) == CHOOSE x \in DOMAIN BLUEPRINTS : BLUEPRINTS[x]._id = id

\* C21: plans run one after the other in the order of the blueprints: when a
\* session of a plan is open, or a step of it was awaited, the run record of
\* every earlier plan has been saved, and no session or step belongs to a
\* later plan than the one being executed.
C21_SerialExecution ==
  /\ \A p \in DOMAIN plans : \A q \in DOMAIN plans :
       p < q => BlueprintIndex(plans[p].id) < BlueprintIndex(plans[q].id)
  /\ \A s \in opened :
       /\ s.plan <= i
       /\ \A p \in 1..(s.plan - 1) : p \in DOMAIN run_log /\ run_log[p].plan = plans[p]
  /\ (trace # <<>> /\ pc \notin {"loop", "exited"}) =>
       \A p \in 1..(i - 1) : p \in DOMAIN run_log /\ run_log[p].plan = plans[p]
  /\ Len(run_log) <= i

\* a session of the second plan is open, the first plan having failed
C21_Witness ==
  /\ \E s \in opened : s.plan = 2
  /\ finished # <<>>
  /\ finished[1].threw

\* C22: an error of mongodump whose text does not contain "Failed" is
\* swallowed and execute goes on with tar of the dump directory and then
\* rm -r of it; one whose text contains "Failed" is rethrown and nothing is
\* run after it, neither tar nor rm -r nor the post hook.
C22_MongodumpErrors ==
  \A x \in DOMAIN trace :
    (trace[x].op = "mongodump" /\ trace[x].outcome = "error") =>
      IF \E w \in DOMAIN trace[x].text : trace[x].text[w] = "Failed"
      THEN x = Len(trace) /\ thrown
      ELSE /\ x = Len(trace) => ~thrown /\ pc = "tarDump"
           /\ x < Len(trace) => trace[x + 1].op = "tar"
           /\ (x + 1 < Len(trace) /\ trace[x + 1].outcome = "ok") =>
                trace[x + 2].op = "rm dump"

\* a mongodump error without "Failed" was swallowed and the dump was archived and removed
C22_Witness ==
  \E x \in DOMAIN trace :
    /\ trace[x].op = "mongodump"
    /\ trace[x].outcome = "error"
    /\ x + 2 \in DOMAIN trace
    /\ trace[x + 2].op = "rm dump"
    /\ trace[x + 2].outcome = "ok"

(***************************************************************************)
(* Properties of createPlan, stated over the calls made so far.            *)
(***************************************************************************)
TheBlueprint == BLUEPRINTS[1]

\* the call proceeded past the due check and the validation of an ssh-agent blueprint
ReachedClassification(c) ==
  /\ ~NotDue(c.latestRun, TheBlueprint.interval, now)
  /\ TheBlueprint.mode = "ssh-agent"
  /\ ValidationError(HOSTS, TheBlueprint, AGENT) = "none"

TheClone == Clone(HOSTS, HOSTS[TheBlueprint.host], AGENT, TheBlueprint)

NothingToDo(clone) ==
  /\ ~Truthy(clone.retainOnHost)
  /\ ~Truthy(clone.downloadLocally)
  /\ Len(clone.directlyCloneTo) = 0
  /\ Len(clone.redirectCloneTo) = 0
  /\ Len(clone.receiveCloneFrom) = 0

\* every destination a call would pull from is marked reachable and is one the
\* agent holds an SSH configuration for
ReceiversUsable(clone) ==
  \A x \in DOMAIN clone.receiveCloneFrom :
    /\ HOSTS[clone.receiveCloneFrom[x].host].available = "reachable"
    /\ clone.receiveCloneFrom[x].host \in HOSTS[AGENT].ssh

\* C5: a call that reached classification returns a failed plan exactly when
\* retainOnHost and downloadLocally are false and all three buckets are empty;
\* a blueprint whose only destination lands in receiveCloneFrom (the agent can
\* SSH into it and it is reachable) is planned ssh-agent, not failed.
C5_FailedExactlyWhenNothingToDo ==
  \A n \in DOMAIN calls :
    (ReachedClassification(calls[n]) /\ ReceiversUsable(TheClone)) =>
      (calls[n].plan.mode = "failed" <=> NothingToDo(TheClone))

\* C6: every ssh-agent plan has a source host that is in the catalog and is not
\* marked unreachable.
C6_SourceHostReachable ==
  \A n \in DOMAIN calls :
    calls[n].plan.mode = "ssh-agent" =>
      /\ TheBlueprint.host \in DOMAIN HOSTS
      /\ HOSTS[TheBlueprint.host].available # "unreachable"

\* the interval of the due-ness law: one day, seven days, or the same day of the
\* following month where that day exists
SameDayNextMonthExists(t) == getDate(t) <= MonthLen[getMonth(t) + 1]
IntervalStated(t, interval) == interval # "monthly" \/ SameDayNextMonthExists(t)
AfterInterval(t, interval) ==
  CASE interval = "daily" -> t + 1
    [] interval = "weekly" -> t + 7
    [] interval = "monthly" -> t + MonthLen[getMonth(t)]

C8_Idempotent ==
  Len(calls) >= 2 => calls[2].plan = calls[1].plan

HostsOf(bucket) == {bucket[x].host : x \in DOMAIN bucket}

\* C9: in every ssh-agent plan no host id is in two of the buckets.
C9_BucketsDisjoint ==
  \A n \in DOMAIN calls :
    calls[n].plan.mode = "ssh-agent" =>
      LET clone == calls[n].plan.clone
      IN /\ HostsOf(clone.directlyCloneTo) \cap HostsOf(clone.redirectCloneTo) = {}
         /\ HostsOf(clone.directlyCloneTo) \cap HostsOf(clone.receiveCloneFrom) = {}
         /\ HostsOf(clone.redirectCloneTo) \cap HostsOf(clone.receiveCloneFrom) = {}

\* a plan with one destination pushed directly and another one redirected
C9_Witness ==
  \E n \in DOMAIN calls :
    /\ calls[n].plan.mode = "ssh-agent"
    /\ Len(calls[n].plan.clone.directlyCloneTo) > 0
    /\ Len(calls[n].plan.clone.redirectCloneTo) > 0

\* C10: in every ssh-agent plan no bucket entry names the agent or the source host.
C10_NoAgentOrSourceInBuckets ==
  \A n \in DOMAIN calls :
    calls[n].plan.mode = "ssh-agent" =>
      LET clone == calls[n].plan.clone
      IN (HostsOf(clone.directlyCloneTo) \cup HostsOf(clone.redirectCloneTo)
            \cup HostsOf(clone.receiveCloneFrom)) \cap {AGENT, TheBlueprint.host} = {}

\* a plan whose destinations name the source host and another host
C10_Witness ==
  \E n \in DOMAIN calls :
    /\ calls[n].plan.mode = "ssh-agent"
    /\ Truthy(calls[n].plan.clone.retainOnHost)
    /\ Len(calls[n].plan.clone.directlyCloneTo) > 0

\* C11: in every ssh-agent plan a non-empty redirectCloneTo comes with a truthy
\* downloadLocally (true or {path}), and downloadLocally is the literal true
\* only when no destination of the blueprint names the agent and
\* redirectCloneTo is non-empty.
C11_RedirectImpliesDownload ==
  \A n \in DOMAIN calls :
    calls[n].plan.mode = "ssh-agent" =>
      LET clone == calls[n].plan.clone
          namesAgent == \E x \in DOMAIN TheBlueprint.destinations :
                          TheBlueprint.destinations[x].host = AGENT
      IN /\ Len(clone.redirectCloneTo) > 0 => clone.downloadLocally.kind \in {"true", "object"}
         /\ clone.downloadLocally = True => ~namesAgent /\ Len(clone.redirectCloneTo) > 0

C11_Witness ==
  \E n \in DOMAIN calls :
    /\ calls[n].plan.mode = "ssh-agent"
    /\ Len(calls[n].plan.clone.redirectCloneTo) > 0
    /\ calls[n].plan.clone.downloadLocally = True

\* the four validation checks as the specification lists them, each evaluated on
\* its own: source exists, source available (truthy), agent exists, agent holds
\* an SSH configuration for the source
ValidationChecks ==
  <<TheBlueprint.host \in DOMAIN HOSTS,
    TheBlueprint.host \in DOMAIN HOSTS /\ HOSTS[TheBlueprint.host].available # "undefined",
    AGENT \in DOMAIN HOSTS,
    AGENT \in DOMAIN HOSTS /\ TheBlueprint.host \in HOSTS[AGENT].ssh>>

ValidationMessages ==
  <<"host does not exist", "host is unavailable", "agent host does not exist",
    "host is unreachable from agent">>

FirstFailingCheck ==
  CHOOSE x \in 1..4 : ~ValidationChecks[x] /\ \A y \in 1..(x - 1) : ValidationChecks[y]

\* C12: every ssh-agent plan has an existing agent host that holds an SSH
\* configuration for the source; the four validation checks are made in the
\* order source exists, source available, agent exists, agent reaches source,
\* and the first one that fails is the error caught, which yields a failed plan
\* (a returned value, nothing is thrown to the caller).
C12_ValidationOrder ==
  \A n \in DOMAIN calls :
    /\ calls[n].plan.mode = "ssh-agent" =>
          AGENT \in DOMAIN HOSTS /\ TheBlueprint.host \in HOSTS[AGENT].ssh
    /\ (calls[n].plan.mode # "skipped" /\ \E x \in 1..4 : ~ValidationChecks[x]) =>
          /\ calls[n].plan = Failed(TheBlueprint._id)
          /\ calls[n].err = ValidationMessages[FirstFailingCheck]

C12_Witness ==
  \E n \in DOMAIN calls :
    /\ calls[n].plan.mode = "failed"
    /\ calls[n].err = "agent host does not exist"
    /\ ValidationChecks[1] /\ ValidationChecks[2]

\* C16: every destination of receiveCloneFrom is a host the agent holds an SSH
\* configuration for (hosts[agent].ssh[d.host] is defined) and which holds one
\* for the source, so the session execute opens to it has a defined configuration.
C16_ReceiversReachableFromAgent ==
  \A n \in DOMAIN calls :
    calls[n].plan.mode = "ssh-agent" =>
      \A x \in DOMAIN calls[n].plan.clone.receiveCloneFrom :
        LET d == calls[n].plan.clone.receiveCloneFrom[x]
        IN /\ d.host \in HOSTS[AGENT].ssh
           /\ TheBlueprint.host \in HOSTS[d.host].ssh

\* the destination is listed in the bucket
InBucket(bucket, d) == \E y \in DOMAIN bucket : bucket[y] = d

\* the table's "dropped" row, for a destination that is neither the source nor
\* the agent: the host is unknown or marked unreachable
Dropped(d) ==
  /\ d.host \notin {TheBlueprint.host, AGENT}
  /\ d.host \notin DOMAIN HOSTS \/ HOSTS[d.host].available = "unreachable"

\* the blueprint without the destinations the table drops
WithoutDropped ==
  [TheBlueprint EXCEPT !.destinations = SelectSeq(TheBlueprint.destinations,
                                                  LAMBDA d : ~Dropped(d))]

\* C18: a destination that is neither the source nor the agent is in no bucket
\* when its host is unknown or marked unreachable, and otherwise in exactly
\* the bucket of the table: direct when the source holds a configuration for
\* it (whatever the reverse), redirect when neither side holds one, receive
\* when only the destination holds one for the source.  Dropped destinations
\* do not change the plan: it is the plan of the blueprint without them.
C18_ClassificationTable ==
  \A n \in DOMAIN calls :
    ReachedClassification(calls[n]) =>
      /\ \A x \in DOMAIN TheBlueprint.destinations :
           LET d == TheBlueprint.destinations[x]
               H == TheBlueprint.host
               direct == InBucket(TheClone.directlyCloneTo, d)
               redirect == InBucket(TheClone.redirectCloneTo, d)
               receive == InBucket(TheClone.receiveCloneFrom, d)
           IN d.host \notin {H, AGENT} =>
                IF Dropped(d) THEN ~direct /\ ~redirect /\ ~receive
                ELSE /\ direct <=> d.host \in HOSTS[H].ssh
                     /\ redirect <=> d.host \notin HOSTS[H].ssh /\ H \notin HOSTS[d.host].ssh
                     /\ receive <=> d.host \notin HOSTS[H].ssh /\ H \in HOSTS[d.host].ssh
      /\ calls[n].plan.mode = "ssh-agent" => calls[n].plan.clone = Finalise(TheClone)
      /\ calls[n].plan = createPlan(HOSTS, WithoutDropped, calls[n].latestRun, AGENT, now)

C18_Witness ==
  \E n \in DOMAIN calls :
    /\ calls[n].plan.mode = "ssh-agent"
    /\ \E x \in DOMAIN TheBlueprint.destinations :
         Dropped(TheBlueprint.destinations[x])
    /\ Len(calls[n].plan.clone.redirectCloneTo) > 0

\* C23: in every ssh-agent plan the agent holds an SSH configuration for each
\* destination of redirectCloneTo (the upload session can be opened) and the
\* source holds one for each destination of directlyCloneTo (the credential
\* given to scpUpload).
C23_ConfigurationsDefined ==
  \A n \in DOMAIN calls :
    calls[n].plan.mode = "ssh-agent" =>
      LET clone == calls[n].plan.clone
      IN /\ \A x \in DOMAIN clone.redirectCloneTo :
              clone.redirectCloneTo[x].host \in HOSTS[AGENT].ssh
         /\ \A x \in DOMAIN clone.directlyCloneTo :
              clone.directlyCloneTo[x].host \in HOSTS[TheBlueprint.host].ssh

====
